---- MODULE Spec2Model ----
(***************************************************************************)
(* Portfolio valuation and lot accounting of the StockPortfolio            *)
(* application (src/app.py): the transaction ledger and its handlers, the  *)
(* derived Portfolio and Price tables, the FIFO lot matcher and the XIRR   *)
(* solver.                                                                  *)
(*                                                                         *)
(* Dates are ISO-8601 strings in the code, compared as strings; they are   *)
(* modelled by their day number.  Prices are floats in the code; the       *)
(* ledger and the matcher only multiply them by integer quantities, so     *)
(* they are modelled as integers (a price in minor units).                 *)
(***************************************************************************)
EXTENDS Integers, Sequences, FiniteSets, Bags, TLC

\* ---------------------------------------------------------------- bounds
\* transactions ever inserted; requests in one behaviour, by any user and by
\* the owners alone
MaxTxns == 2
MaxRequests == 2
MaxOwnerRequests == 3

Users == {1, 2}
Stocks == {"AAA", "BBB"}
FormTickers == Stocks \cup {"ZZZ"}
Operations == {"Buy", "Sell"}
Dates == {1, 2}
Today == 2
Quantities == {1, 2}
\* prices a form carries, and closing prices the market-data provider returns
PriceValues == {1}
ClosePrices == {2}

\* request.form of add_transaction and edit_transaction
Forms ==
  [tickersymbol : FormTickers, operation : Operations, quantity : Quantities,
   date : Dates, price : PriceValues]

\* yf.Ticker(t).history(period="1d"): raises, is empty, or has a last Close
Provider ==
  {[kind |-> "raise", close |-> 0], [kind |-> "empty", close |-> 0]}
    \cup {[kind |-> "data", close |-> p] : p \in ClosePrices}

VARIABLES
  transactions,        \* Transaction table: id -> row
  transaction_id_seq,  \* next value of transaction_id_seq
  prices,              \* Price table: a bag of rows (tickersymbol, date, price)
  portfolio,           \* Portfolio table: (user_id, tickersymbol) -> row
  response,            \* handler and HTTP status of the last completed request
  requests,            \* number of completed requests
  currency,            \* Stock table: tickersymbol -> currency
  history,             \* what the market-data provider answered the last request
  portfolio_items,     \* index: the item_data of the holdings it rendered
  in_flight,           \* add_transaction requests served by concurrent threads
  lot_pc,              \* lot_details: where the handler stands
  lot_rows,            \* lot_details: transactions, the rows of its query
  lot_i,               \* lot_details: index in lot_rows of the row t of the for loop
  matcher,             \* lot_details: lots, open_lots and sell_quantity
  lot_report,          \* lot_details: the lots handed to the template
  xirr                 \* calculate_xirr: its arguments, locals and return value

table_vars == <<transactions, transaction_id_seq, prices, portfolio>>
request_vars == <<response, requests, history, portfolio_items, in_flight>>
ledger_vars == <<table_vars, currency, request_vars>>
lot_vars == <<lot_pc, lot_rows, lot_i, matcher, lot_report>>
vars == <<ledger_vars, lot_vars, xirr>>

\* ------------------------------------------------------------ the tables
RECURSIVE SumQuantity(_, _)
SumQuantity(txns, ids) ==
  IF ids = {} THEN 0
  ELSE LET i == CHOOSE x \in ids : TRUE
       IN  txns[i].quantity + SumQuantity(txns, ids \ {i})

get_current_stock_quantity_all_dates(txns, tickersymbol, transaction_date, user_id, exclude_transaction_id) ==
  LET sel(op) == {i \in DOMAIN txns :
                    /\ txns[i].tickersymbol = tickersymbol
                    /\ txns[i].operation = op
                    /\ txns[i].user_id = user_id
                    /\ (exclude_transaction_id # 0 => i # exclude_transaction_id)}
  IN  SumQuantity(txns, sel("Buy")) - SumQuantity(txns, sel("Sell"))

\* exclude_transaction_id = 0 stands for None (both are falsy in the code)
get_current_stock_quantity(txns, tickersymbol, transaction_date, user_id, exclude_transaction_id) ==
  LET sel(op) == {i \in DOMAIN txns :
                    /\ txns[i].tickersymbol = tickersymbol
                    /\ txns[i].operation = op
                    /\ txns[i].date <= transaction_date
                    /\ txns[i].user_id = user_id
                    /\ (exclude_transaction_id # 0 => i # exclude_transaction_id)}
      buy_quantity == SumQuantity(txns, sel("Buy"))
      sell_quantity == SumQuantity(txns, sel("Sell"))
  IN  buy_quantity - sell_quantity

PriceRow(t, d, p) == [tickersymbol |-> t, date |-> d, price |-> p]

\* Price.query.filter_by(tickersymbol, date).first(), then update or insert.
\* first() without ORDER BY may return any matching row: one result per row.
UpsertPrice(prs, t, d, p) ==
  LET matches == {r \in BagToSet(prs) : r.tickersymbol = t /\ r.date = d}
  IN  IF matches = {}
      THEN {prs (+) SetToBag({PriceRow(t, d, p)})}
      ELSE {(prs (-) SetToBag({r})) (+) SetToBag({PriceRow(t, d, p)}) : r \in matches}

\* Price.query.filter_by(tickersymbol).order_by(Price.date.desc()).first():
\* the prices a most recent row may carry, 0.0 when there is no row
LatestPrices(prs, t) ==
  LET rows == {r \in BagToSet(prs) : r.tickersymbol = t}
  IN  IF rows = {} THEN {0}
      ELSE {r.price : r \in {x \in rows : \A y \in rows : y.date <= x.date}}

FetchLatestPrice_zero_when_empty(prs, t, hist) ==
  IF hist.kind = "data" THEN UpsertPrice(prs, t, Today, hist.close)
  ELSE IF hist.kind = "empty" THEN UpsertPrice(prs, t, Today, 0)
  ELSE {prs}

\* the try block that fetches today's price; an exception or an empty
\* history writes nothing
FetchLatestPrice(prs, t, hist) ==
  IF hist.kind = "data" THEN UpsertPrice(prs, t, Today, hist.close) ELSE {prs}

\* the two sums of update_portfolio and their difference
TotalQuantity(txns, tickersymbol, user_id) ==
  LET sel(op) == {i \in DOMAIN txns :
                    /\ txns[i].tickersymbol = tickersymbol
                    /\ txns[i].operation = op
                    /\ txns[i].user_id = user_id}
      buy_quantity == SumQuantity(txns, sel("Buy"))
      sell_quantity == SumQuantity(txns, sel("Sell"))
  IN  buy_quantity - sell_quantity

\* the lookup of the Portfolio entry and what update_portfolio does to it,
\* the sums and the latest price having been read
WrittenPortfolio(total_quantity, latest_price, pf, tickersymbol, user_id) ==
  LET key == <<user_id, tickersymbol>>
      entry == [quantity |-> total_quantity, value |-> total_quantity * latest_price]
  IN  IF key \in DOMAIN pf
      THEN IF total_quantity = 0
           THEN [k \in DOMAIN pf \ {key} |-> pf[k]]
           ELSE [pf EXCEPT ![key] = entry]
      ELSE IF total_quantity > 0
           THEN [k \in DOMAIN pf \cup {key} |-> IF k = key THEN entry ELSE pf[k]]
           ELSE pf

UpdatedPortfolio_row_for_zero(txns, latest_price, pf, tickersymbol, user_id) ==
  LET total_quantity == TotalQuantity(txns, tickersymbol, user_id)
      key == <<user_id, tickersymbol>>
      entry == [quantity |-> total_quantity, value |-> total_quantity * latest_price]
  IN  IF key \in DOMAIN pf
      THEN IF total_quantity = 0
           THEN [k \in DOMAIN pf \ {key} |-> pf[k]]
           ELSE [pf EXCEPT ![key] = entry]
      ELSE IF total_quantity >= 0
           THEN [k \in DOMAIN pf \cup {key} |-> IF k = key THEN entry ELSE pf[k]]
           ELSE pf

\* update_portfolio once the latest-price query has returned a row of price
\* latest_price (0.0 when it returned none)
UpdatedPortfolio(txns, latest_price, pf, tickersymbol, user_id) ==
  WrittenPortfolio(TotalQuantity(txns, tickersymbol, user_id), latest_price, pf,
                   tickersymbol, user_id)

update_portfolio(txns, prs, pf, tickersymbol, user_id) ==
  {UpdatedPortfolio(txns, latest_price, pf, tickersymbol, user_id) :
     latest_price \in LatestPrices(prs, tickersymbol)}

\* ----------------------------------------------------------- the handlers
\* A handler maps the persisted tables and a request to the set of its
\* outcomes: the tables after the request and the status of the response.
Db == [transactions |-> transactions, transaction_id_seq |-> transaction_id_seq,
       prices |-> prices, portfolio |-> portfolio]

Outcome(txns, seq, prs, pf, status) ==
  [transactions |-> txns, transaction_id_seq |-> seq, prices |-> prs,
   portfolio |-> pf, status |-> status]

Rejected(db, status) ==
  Outcome(db.transactions, db.transaction_id_seq, db.prices, db.portfolio, status)

\* the tail shared by add_transaction and edit_transaction: price of the
\* transaction's date, today's price, commit, update_portfolio
PricesAndPortfolio(txns, seq, prs, pf, t, d, p, hist, user, status) ==
  {Outcome(txns, seq, prs2, pf1, status) :
     <<prs2, pf1>> \in
       UNION {UNION {{<<q2, f1>> : f1 \in update_portfolio(txns, q2, pf, t, user)}
                     : q2 \in FetchLatestPrice(q1, t, hist)}
              : q1 \in UpsertPrice(prs, t, d, p)}}

add_transaction(db, user, form, hist) ==
  IF form.tickersymbol \notin Stocks
  THEN {Rejected(db, 404)}
  ELSE IF /\ form.operation = "Sell"
          /\ form.quantity >
               get_current_stock_quantity(db.transactions, form.tickersymbol,
                                          form.date, user, 0)
  THEN {Rejected(db, 400)}
  ELSE LET id == db.transaction_id_seq
           new_transaction ==
             [user_id |-> user, tickersymbol |-> form.tickersymbol,
              operation |-> form.operation, quantity |-> form.quantity,
              date |-> form.date, price |-> form.price]
           txns == [i \in DOMAIN db.transactions \cup {id} |->
                      IF i = id THEN new_transaction ELSE db.transactions[i]]
       IN  PricesAndPortfolio(txns, id + 1, db.prices, db.portfolio,
                              form.tickersymbol, form.date, form.price, hist, user, 200)

\* transaction.<field> = request.form[...]: the row as the handler's session
\* holds it, and the table as the queries that follow see it (they flush the
\* session first)
EditedRow(db, id, form) ==
  [db.transactions[id] EXCEPT
     !.tickersymbol = form.tickersymbol, !.operation = form.operation,
     !.quantity = form.quantity, !.date = form.date, !.price = form.price]

Flushed(db, id, form) == [db.transactions EXCEPT ![id] = EditedRow(db, id, form)]

\* the status edit_transaction returns before it commits, 0 when it goes on
edit_validation(db, user, id, form) ==
  IF id \notin DOMAIN db.transactions
  THEN 404
  ELSE LET transaction == EditedRow(db, id, form)
       IN  IF transaction.tickersymbol \notin Stocks
           THEN 404
           ELSE IF /\ transaction.operation = "Sell"
                   /\ transaction.quantity >
                        get_current_stock_quantity(Flushed(db, id, form),
                                                   transaction.tickersymbol,
                                                   transaction.date, user, id)
           THEN 400
           ELSE 0

edit_transaction_commits_first(db, user, id, form, hist) ==
  LET status == edit_validation(db, user, id, form)
  IN  IF id \notin DOMAIN db.transactions
      THEN {Rejected(db, 404)}
      ELSE IF status # 0
      THEN {Outcome(Flushed(db, id, form), db.transaction_id_seq, db.prices,
                    db.portfolio, status)}
      ELSE PricesAndPortfolio(Flushed(db, id, form), db.transaction_id_seq,
                              db.prices, db.portfolio, form.tickersymbol,
                              form.date, form.price, hist, user, 302)

\* a request that returns without db.session.commit() leaves the tables as
\* they were: its session is removed, and the flushed row rolled back, when
\* the request ends
edit_transaction(db, user, id, form, hist) ==
  LET status == edit_validation(db, user, id, form)
  IN  IF status # 0
      THEN {Rejected(db, status)}
      ELSE LET transaction == EditedRow(db, id, form)
           IN  PricesAndPortfolio(Flushed(db, id, form), db.transaction_id_seq,
                                  db.prices, db.portfolio, transaction.tickersymbol,
                                  transaction.date, transaction.price, hist, user, 302)

delete_transaction(db, user, id) ==
  IF id \notin DOMAIN db.transactions
  THEN {Rejected(db, 404)}
  ELSE LET transaction == db.transactions[id]
           txns == [i \in DOMAIN db.transactions \ {id} |-> db.transactions[i]]
       IN  {Outcome(txns, db.transaction_id_seq, db.prices, pf1, 302) :
              pf1 \in update_portfolio(txns, db.prices, db.portfolio,
                                       transaction.tickersymbol, user)}

\* ------------------------------------------------------ the price handlers
\* request.form of add_price and edit_price
PriceForms ==
  [tickersymbol : FormTickers, date : Dates, price : PriceValues \cup ClosePrices]

\* the answers of the provider to a request that asks for several tickers
Histories == [Stocks -> Provider]

\* POST /add_price: the row is inserted without a lookup of (tickersymbol, date)
add_price(db, form) ==
  IF form.tickersymbol \notin Stocks
  THEN {Rejected(db, 404)}
  ELSE {Outcome(db.transactions, db.transaction_id_seq,
                db.prices (+) SetToBag({PriceRow(form.tickersymbol, form.date, form.price)}),
                db.portfolio, 302)}

\* POST /edit_price/<id>, price_entry being the row of that id: get_or_404,
\* the three assignments, the stock check, the commit
edit_price(db, price_entry, form) ==
  IF ~BagIn(price_entry, db.prices)
  THEN {Rejected(db, 404)}
  ELSE IF form.tickersymbol \notin Stocks
  THEN {Rejected(db, 404)}
  ELSE {Outcome(db.transactions, db.transaction_id_seq,
                (db.prices (-) SetToBag({price_entry}))
                  (+) SetToBag({PriceRow(form.tickersymbol, form.date, form.price)}),
                db.portfolio, 302)}

\* GET /delete_price/<id>
delete_price(db, price_entry) ==
  IF ~BagIn(price_entry, db.prices)
  THEN {Rejected(db, 404)}
  ELSE {Outcome(db.transactions, db.transaction_id_seq,
                db.prices (-) SetToBag({price_entry}), db.portfolio, 302)}

\* the for loop of update_prices_from_google over the stocks left: an empty
\* history stores 0.0, an exception skips the stock
RECURSIVE UpdateEachStock(_, _, _)
UpdateEachStock(prs, stocks, hists) ==
  IF stocks = {} THEN {prs}
  ELSE LET t == CHOOSE x \in stocks : TRUE
           latest_price == IF hists[t].kind = "data" THEN hists[t].close ELSE 0
           stored == IF hists[t].kind = "raise" THEN {prs}
                     ELSE UpsertPrice(prs, t, Today, latest_price)
       IN  UNION {UpdateEachStock(q, stocks \ {t}, hists) : q \in stored}

\* GET /update_prices_from_google
update_prices_from_google(db, hists) ==
  {Outcome(db.transactions, db.transaction_id_seq, prs, db.portfolio, 302) :
     prs \in UpdateEachStock(db.prices, Stocks, hists)}

\* the tickers of the user's Portfolio rows
PortfolioTickers(pf, user_id) == {t \in Stocks : <<user_id, t>> \in DOMAIN pf}

\* the for loop of update_user_portfolio_prices over the tickers left: an
\* empty history and an exception store nothing
RECURSIVE UpdateEachTicker(_, _, _)
UpdateEachTicker(prs, portfolio_tickers, hists) ==
  IF portfolio_tickers = {} THEN {prs}
  ELSE LET tickersymbol == CHOOSE x \in portfolio_tickers : TRUE
       IN  UNION {UpdateEachTicker(q, portfolio_tickers \ {tickersymbol}, hists) :
                    q \in FetchLatestPrice(prs, tickersymbol, hists[tickersymbol])}

update_user_portfolio_prices(db, user_id, hists) ==
  UpdateEachTicker(db.prices, PortfolioTickers(db.portfolio, user_id), hists)

\* POST /login with the password of the user
login(db, user, hists) ==
  {Outcome(db.transactions, db.transaction_id_seq, prs, db.portfolio, 302) :
     prs \in update_user_portfolio_prices(db, user, hists)}

\* ------------------------------------------------------------ float arithmetic
\* Python floats, modelled as decimal floating-point numbers m * 10^e with a
\* mantissa of Precision digits (normalised: 10^(Precision-1) <= |m| <
\* 10^Precision, or m = 0 and e = 0) and the exponent range of a double.
\* Every operation rounds its exact result to the nearest such number, ties to
\* even, as the binary arithmetic does to 53 bits, so that a sum depends on
\* the order of its terms; past the range it gives inf or 0.  A value is a
\* record whose kind is "finite", "inf" (m its sign), "nan", "None", or the
\* name of the exception that evaluating the expression raised.
Precision == 4
MaxExponent == 308
MinExponent == -324

Finite(m, e) == [kind |-> "finite", m |-> m, e |-> e]

Zero == Finite(0, 0)

Sign(n) == IF n < 0 THEN -1 ELSE 1

Infinity(sign) == [kind |-> "inf", m |-> sign, e |-> 0]

NaN == [kind |-> "nan", m |-> 0, e |-> 0]

None == [kind |-> "None", m |-> 0, e |-> 0]

Raised(exception) == [kind |-> exception, m |-> 0, e |-> 0]

IsRaised(a) == a.kind \in {"OverflowError", "ZeroDivisionError"}

IsZero(a) == a.kind = "finite" /\ a.m = 0

Abs(n) == IF n < 0 THEN -n ELSE n

RECURSIVE DigitCount(_)
DigitCount(n) == IF n < 10 THEN 1 ELSE 1 + DigitCount(n \div 10)

\* the float nearest to m * 10^e; inexact says that the exact value lies
\* strictly above |m| * 10^e in magnitude (a division left a remainder)
Round(m, e, inexact) ==
  IF m = 0
  THEN Zero
  ELSE LET a == Abs(m)
           d == DigitCount(a)
           k == d - Precision
           q == a \div 10^k
           r == a % 10^k
           up == r > 5 * 10^(k - 1) \/ (r = 5 * 10^(k - 1) /\ (inexact \/ q % 2 = 1))
           q1 == IF up THEN q + 1 ELSE q
           rounded == IF k <= 0 THEN Finite(m * 10^(-k), e + k)
                      ELSE IF q1 = 10^Precision
                      THEN Finite(Sign(m) * (q1 \div 10), e + k + 1)
                      ELSE Finite(Sign(m) * q1, e + k)
       IN  IF rounded.e + Precision - 1 > MaxExponent THEN Infinity(Sign(m))
           ELSE IF rounded.e + Precision - 1 < MinExponent THEN Zero
           ELSE rounded

\* float(n) of an int
Float(n) == Round(n, 0, FALSE)

One == Float(1)

\* -a
Neg(a) == [a EXCEPT !.m = -a.m]

\* a + b
Add(a, b) ==
  IF IsRaised(a) THEN a
  ELSE IF IsRaised(b) THEN b
  ELSE IF a.kind = "nan" \/ b.kind = "nan" THEN NaN
  ELSE IF a.kind = "inf" THEN (IF b.kind = "inf" /\ b.m # a.m THEN NaN ELSE a)
  ELSE IF b.kind = "inf" THEN b
  ELSE IF a.m = 0 THEN b
  ELSE IF b.m = 0 THEN a
  ELSE LET hi == IF a.e >= b.e THEN a ELSE b
           lo == IF a.e >= b.e THEN b ELSE a
           shift == hi.e - lo.e
       IN  IF shift > Precision + 1
           THEN hi
           ELSE Round(hi.m * 10^shift + lo.m, lo.e, FALSE)

\* a - b
Sub(a, b) == Add(a, Neg(b))

\* a * b
Mul(a, b) ==
  IF IsRaised(a) THEN a
  ELSE IF IsRaised(b) THEN b
  ELSE IF a.kind = "nan" \/ b.kind = "nan" THEN NaN
  ELSE IF a.kind = "inf" \/ b.kind = "inf"
  THEN (IF a.m = 0 \/ b.m = 0 THEN NaN ELSE Infinity(Sign(a.m) * Sign(b.m)))
  ELSE Round(a.m * b.m, a.e + b.e, FALSE)

\* a / b: a float division by zero raises
Div(a, b) ==
  IF IsRaised(a) THEN a
  ELSE IF IsRaised(b) THEN b
  ELSE IF IsZero(b) THEN Raised("ZeroDivisionError")
  ELSE IF a.kind = "nan" \/ b.kind = "nan" THEN NaN
  ELSE IF a.kind = "inf"
  THEN (IF b.kind = "inf" THEN NaN ELSE Infinity(a.m * Sign(b.m)))
  ELSE IF b.kind = "inf" \/ a.m = 0 THEN Zero
  ELSE LET n == Abs(a.m) * 10^(Precision + 1)
       IN  Round(Sign(a.m) * Sign(b.m) * (n \div Abs(b.m)),
                 a.e - b.e - (Precision + 1), n % Abs(b.m) # 0)

\* a multiplied n times
RECURSIVE Product(_, _)
Product(a, n) == IF n = 0 THEN One ELSE Mul(Product(a, n - 1), a)

\* a float power past the range raises
InRange(a) == IF a.kind = "inf" THEN Raised("OverflowError") ELSE a

\* a ** n for a > 0 and a whole n, product being a multiplied |n| times
PowOf(a, n, product) ==
  IF IsRaised(a) THEN a
  ELSE IF n = 0 THEN One
  ELSE IF a.kind = "nan" THEN NaN
  ELSE IF n > 0 /\ a.kind = "inf" THEN a
  ELSE IF n > 0 THEN InRange(product)
  ELSE IF product.kind = "inf" THEN Zero
  ELSE IF IsZero(product) THEN Raised("OverflowError")
  ELSE InRange(Div(One, product))

Pow(a, n) == PowOf(a, n, Product(a, Abs(n)))

\* a <= 0
NotPositive(a) == (a.kind = "finite" /\ a.m <= 0) \/ (a.kind = "inf" /\ a.m < 0)

\* a <= b
LessEq(a, b) == NotPositive(Sub(a, b))

\* abs(a) < 0.000001
WithinTolerance(a) == a.kind = "finite" /\ (a.m = 0 \/ a.e + Precision <= -6)

\* ---------------------------------------------------------------------- XIRR
\* dates are day numbers a whole number of years apart, so that the exponent
\* days / 365.0 is a whole number
DaysPerYear == 365

RECURSIVE MinDate(_, _)
MinDate(dates, n) ==
  IF n = 1
  THEN dates[1]
  ELSE LET m == MinDate(dates, n - 1) IN IF dates[n] < m THEN dates[n] ELSE m

RECURSIVE XnpvLoop_compounding(_, _, _, _)
XnpvLoop_compounding(rate, cash_flows, dates, n) ==
  IF n = 0
  THEN Zero
  ELSE LET days == dates[n] - MinDate(dates, Len(dates))
       IN  Add(XnpvLoop_compounding(rate, cash_flows, dates, n - 1),
               Mul(Float(cash_flows[n]), Pow(Add(One, rate), days \div DaysPerYear)))

\* npv after the first n passes of the loop of _xnpv
RECURSIVE XnpvLoop(_, _, _, _)
XnpvLoop(rate, cash_flows, dates, n) ==
  IF n = 0
  THEN Zero
  ELSE LET days == dates[n] - MinDate(dates, Len(dates))
       IN  Add(XnpvLoop(rate, cash_flows, dates, n - 1),
               Div(Float(cash_flows[n]), Pow(Add(One, rate), days \div DaysPerYear)))

_xnpv(rate, cash_flows, dates) ==
  IF LessEq(rate, Neg(One))
  THEN Infinity(1)
  ELSE XnpvLoop(rate, cash_flows, dates, Len(cash_flows))

\* deriv_npv after the first n passes of the loop over j
RECURSIVE DerivLoop(_, _, _, _)
DerivLoop(guess, cash_flows, dates, n) ==
  IF n = 0
  THEN Zero
  ELSE LET days == dates[n] - MinDate(dates, Len(dates))
           deriv_npv == DerivLoop(guess, cash_flows, dates, n - 1)
       IN  IF days = 0
           THEN deriv_npv
           ELSE Sub(deriv_npv,
                    Mul(Div(Mul(Float(cash_flows[n]), Float(days)), Float(DaysPerYear)),
                        Pow(Add(One, guess), -(days \div DaysPerYear) - 1)))

\* the tuples of sorted(): by date, then by cash flow
TupleLess(a, b) == a[1] < b[1] \/ (a[1] = b[1] /\ a[2] < b[2])

DateLess(a, b) == a[1] < b[1]

\* zip(dates, cash_flows)
Zip(dates, cash_flows) == [i \in 1..Len(dates) |-> <<dates[i], cash_flows[i]>>]

\* x put into a sorted list behind the elements it is not less than
RECURSIVE Insert(_, _, _)
Insert(list, x, by_tuple) ==
  LET last == list[Len(list)]
  IN  IF list = <<>>
      THEN <<x>>
      ELSE IF (IF by_tuple THEN TupleLess(x, last) ELSE DateLess(x, last))
      THEN Append(Insert(SubSeq(list, 1, Len(list) - 1), x, by_tuple), last)
      ELSE Append(list, x)

\* sorted(list): stable, equal elements keep the order they came in
RECURSIVE Sorted(_, _, _)
Sorted(list, n, by_tuple) ==
  IF n = 0 THEN <<>> ELSE Insert(Sorted(list, n - 1, by_tuple), list[n], by_tuple)

sorted_data_by_date(dates, cash_flows) ==
  Sorted(Zip(dates, cash_flows), Len(dates), FALSE)

sorted_data(dates, cash_flows) ==
  Sorted(Zip(dates, cash_flows), Len(dates), TRUE)

\* [d for d, cf in sorted_data] and [cf for d, cf in sorted_data]
SortedDates(data) == [i \in 1..Len(data) |-> data[i][1]]

SortedCashFlows(data) == [i \in 1..Len(data) |-> data[i][2]]

MaxIterations == 100

XirrUpdate_guess_on_zero_derivative(guess, npv, deriv_npv, quotient) ==
  IF WithinTolerance(npv) \/ IsZero(deriv_npv)
  THEN [returns |-> TRUE, value |-> guess]
  ELSE [returns |-> IsRaised(quotient), value |-> Sub(guess, quotient)]

\* lines 55-60, for a guess whose npv and deriv_npv raised nothing: what the
\* pass returns or raises, or the next guess
XirrUpdate(guess, npv, deriv_npv, quotient) ==
  IF WithinTolerance(npv) THEN [returns |-> TRUE, value |-> guess]
  ELSE IF IsZero(deriv_npv) THEN [returns |-> TRUE, value |-> None]
  ELSE [returns |-> IsRaised(quotient), value |-> Sub(guess, quotient)]

\* line 43: if 1 + guess <= 0
XirrGuard_strict(guess) == ~NotPositive(Sub(Zero, Add(One, guess)))

XirrGuard(guess) == LessEq(Add(One, guess), Zero)

\* one pass of the Newton-Raphson loop, given its npv and deriv_npv
XirrPass(guess, npv, deriv_npv) ==
  IF XirrGuard(guess) THEN [returns |-> TRUE, value |-> None]
  ELSE IF IsRaised(npv) THEN [returns |-> TRUE, value |-> npv]
  ELSE IF IsRaised(deriv_npv) THEN [returns |-> TRUE, value |-> deriv_npv]
  ELSE XirrUpdate(guess, npv, deriv_npv, Div(npv, deriv_npv))

XirrStep(guess, cash_flows, dates) ==
  XirrPass(guess, _xnpv(guess, cash_flows, dates),
           DerivLoop(guess, cash_flows, dates, Len(cash_flows)))

\* the loop from pass i on, and what follows pass i
RECURSIVE NewtonRaphson(_, _, _, _)
AfterPass(step, cash_flows, dates, i) ==
  IF step.returns
  THEN step.value
  ELSE NewtonRaphson(step.value, cash_flows, dates, i + 1)

NewtonRaphson(guess, cash_flows, dates, i) ==
  IF i = MaxIterations
  THEN None
  ELSE AfterPass(XirrStep(guess, cash_flows, dates), cash_flows, dates, i)

\* the loop on the two lists taken from the sorted pairs
SolveSorted(data, guess) ==
  NewtonRaphson(guess, SortedCashFlows(data), SortedDates(data), 0)

calculate_xirr(cash_flows, dates, guess) ==
  IF Len(cash_flows) = 0 \/ Len(cash_flows) # Len(dates)
  THEN None
  ELSE SolveSorted(sorted_data(dates, cash_flows), guess)

\* the default guess=0.1
DefaultGuess == Div(One, Float(10))

XirrIdle ==
  [pc |-> "idle", cash_flows |-> <<>>, dates |-> <<>>, sorted_data |-> <<>>,
   guess |-> Zero, i |-> 0, rate |-> None, result |-> None]

\* ------------------------------------------------------- the FIFO matcher
\* Transaction.query.filter_by(tickersymbol, user_id)
\*   .order_by(Transaction.date, Transaction.id).all()
RECURSIVE OrderByDateId(_, _)
OrderByDateId(txns, ids) ==
  IF ids = {} THEN <<>>
  ELSE LET i == CHOOSE x \in ids : \A y \in ids :
                  \/ txns[x].date < txns[y].date
                  \/ (txns[x].date = txns[y].date /\ x <= y)
       IN  <<[id |-> i, operation |-> txns[i].operation,
              quantity |-> txns[i].quantity, date |-> txns[i].date,
              price |-> txns[i].price]>>
             \o OrderByDateId(txns, ids \ {i})

OrderedTransactions(txns, tickersymbol, user_id) ==
  OrderByDateId(txns, {i \in DOMAIN txns : /\ txns[i].tickersymbol = tickersymbol
                                           /\ txns[i].user_id = user_id})

\* The matcher of lot_details.  lots holds every lot in the order of its Buy;
\* open_lots holds the indices in lots of the lots still open (the code
\* keeps references to the same dictionaries); sell_quantity is the local of
\* the Sell branch.
NoLots == [lots |-> <<>>, open_lots |-> <<>>, sell_quantity |-> 0]

LotBuy(m, t) ==
  LET new_lot == [id |-> <<t.date, t.id>>,
                  purchased_quantity |-> t.quantity,
                  balance_quantity |-> t.quantity,
                  price |-> t.price,
                  date |-> t.date,
                  sales_from_lot |-> <<>>]
  IN  [m EXCEPT !.lots = Append(@, new_lot),
                !.open_lots = Append(@, Len(m.lots) + 1)]

Min(a, b) == IF a <= b THEN a ELSE b

\* calculate_xirr of two flows where the decimal arithmetic can follow it,
\* the dates being a whole number of years apart; the application itself
\* where it cannot
XirrOfPair(cash_flows, dates) ==
  IF (dates[2] - dates[1]) % DaysPerYear = 0
  THEN calculate_xirr(cash_flows, dates, DefaultGuess)
  ELSE [kind |-> "calculate_xirr", m |-> cash_flows, e |-> dates]

\* sale_xirr: None, replaced by the result of calculate_xirr unless it raised
SaleXirr(quantity_from_lot, purchase_price, sale_price, purchase_date, sale_date) ==
  LET sale_cash_flows == <<0 - (quantity_from_lot * purchase_price),
                           quantity_from_lot * sale_price>>
      sale_dates == <<purchase_date, sale_date>>
      result == XirrOfPair(sale_cash_flows, sale_dates)
  IN  IF IsRaised(result) THEN None ELSE result

SaleEvent_whole_sell(lot, sell_quantity, t) ==
  [sold_quantity |-> Min(sell_quantity, lot.balance_quantity),
   sale_date |-> t.date,
   purchase_price |-> lot.price,
   sale_price |-> t.price,
   realized_gain |-> (t.price - lot.price) * sell_quantity,
   xirr |-> SaleXirr(Min(sell_quantity, lot.balance_quantity), lot.price, t.price,
                     lot.date, t.date)]

SaleEvent_whole_lot(lot, sell_quantity, t) ==
  [sold_quantity |-> lot.balance_quantity,
   sale_date |-> t.date,
   purchase_price |-> lot.price,
   sale_price |-> t.price,
   realized_gain |-> (t.price - lot.price) * lot.balance_quantity,
   xirr |-> SaleXirr(lot.balance_quantity, lot.price, t.price, lot.date, t.date)]

\* the dictionary appended to sales_from_lot
SaleEvent(lot, sell_quantity, t) ==
  LET quantity_from_lot == Min(sell_quantity, lot.balance_quantity)
      purchase_price == lot.price
      realized_gain == (t.price - purchase_price) * quantity_from_lot
  IN  [sold_quantity |-> quantity_from_lot,
       sale_date |-> t.date,
       purchase_price |-> purchase_price,
       sale_price |-> t.price,
       realized_gain |-> realized_gain,
       xirr |-> SaleXirr(quantity_from_lot, purchase_price, t.price, lot.date, t.date)]

LotSellStep_newest_lot(m, t) ==
  LET k == m.open_lots[Len(m.open_lots)]
      newest_lot == m.lots[k]
      sale == SaleEvent(newest_lot, m.sell_quantity, t)
      balance == newest_lot.balance_quantity - sale.sold_quantity
  IN  [lots |-> [m.lots EXCEPT ![k] =
                   [@ EXCEPT !.sales_from_lot = Append(@, sale),
                             !.balance_quantity = balance]],
       open_lots |-> IF balance = 0
                     THEN SubSeq(m.open_lots, 1, Len(m.open_lots) - 1)
                     ELSE m.open_lots,
       sell_quantity |-> m.sell_quantity - sale.sold_quantity]

LotSellStep_sale_not_recorded(m, t) ==
  LET k == Head(m.open_lots)
      oldest_lot == m.lots[k]
      sale == SaleEvent(oldest_lot, m.sell_quantity, t)
      balance == oldest_lot.balance_quantity - sale.sold_quantity
  IN  [lots |-> [m.lots EXCEPT ![k] = [@ EXCEPT !.balance_quantity = balance]],
       open_lots |-> IF balance = 0 THEN Tail(m.open_lots) ELSE m.open_lots,
       sell_quantity |-> m.sell_quantity - sale.sold_quantity]

\* one pass of `while sell_quantity > 0 and open_lots`
LotSellStep(m, t) ==
  LET k == Head(m.open_lots)
      oldest_lot == m.lots[k]
      sale == SaleEvent(oldest_lot, m.sell_quantity, t)
      balance == oldest_lot.balance_quantity - sale.sold_quantity
  IN  [lots |-> [m.lots EXCEPT ![k] =
                   [@ EXCEPT !.sales_from_lot = Append(@, sale),
                             !.balance_quantity = balance]],
       open_lots |-> IF balance = 0 THEN Tail(m.open_lots) ELSE m.open_lots,
       sell_quantity |-> m.sell_quantity - sale.sold_quantity]

RECURSIVE LotSellLoop(_, _)
LotSellLoop(m, t) ==
  IF m.sell_quantity > 0 /\ m.open_lots # <<>>
  THEN LotSellLoop(LotSellStep(m, t), t)
  ELSE m

LotTransaction(m, t) ==
  IF t.operation = "Buy" THEN LotBuy(m, t)
  ELSE IF t.operation = "Sell"
  THEN LotSellLoop([m EXCEPT !.sell_quantity = t.quantity], t)
  ELSE m

\* the `for t in transactions` loop of lot_details over the first n rows
RECURSIVE LotLoop(_, _)
LotLoop(ts, n) ==
  IF n = 0 THEN NoLots ELSE LotTransaction(LotLoop(ts, n - 1), ts[n])

\* the matcher of calculate_fifo_cost_basis: lots is a list of
\* (quantity, cost_per_share)
RECURSIVE FifoBasisSell_newest_first(_, _)
FifoBasisSell_newest_first(lots, sell_quantity) ==
  IF sell_quantity > 0 /\ lots # <<>>
  THEN LET n == Len(lots)
           newest_lot == lots[n]
       IN  IF newest_lot.quantity <= sell_quantity
           THEN FifoBasisSell_newest_first(SubSeq(lots, 1, n - 1),
                                           sell_quantity - newest_lot.quantity)
           ELSE [lots EXCEPT ![n].quantity = @ - sell_quantity]
  ELSE lots

RECURSIVE FifoBasisSell(_, _)
FifoBasisSell(lots, sell_quantity) ==
  IF sell_quantity > 0 /\ lots # <<>>
  THEN LET oldest_lot == lots[1]
       IN  IF oldest_lot.quantity <= sell_quantity
           THEN FifoBasisSell(Tail(lots), sell_quantity - oldest_lot.quantity)
           ELSE [lots EXCEPT ![1].quantity = @ - sell_quantity]
  ELSE lots

RECURSIVE FifoBasisLots(_, _)
FifoBasisLots(ts, n) ==
  IF n = 0 THEN <<>>
  ELSE LET lots == FifoBasisLots(ts, n - 1)
           transaction == ts[n]
       IN  IF transaction.operation = "Buy"
           THEN Append(lots, [quantity |-> transaction.quantity,
                              cost_per_share |-> transaction.price])
           ELSE IF transaction.operation = "Sell"
           THEN FifoBasisSell(lots, transaction.quantity)
           ELSE lots

RECURSIVE LotsCost(_, _)
LotsCost(lots, n) ==
  IF n = 0 THEN 0
  ELSE LotsCost(lots, n - 1) + lots[n].quantity * lots[n].cost_per_share

\* current_quantity is a parameter the code never reads
calculate_fifo_cost_basis(txns, tickersymbol, user_id, current_quantity) ==
  LET ts == OrderedTransactions(txns, tickersymbol, user_id)
      lots == FifoBasisLots(ts, Len(ts))
  IN  LotsCost(lots, Len(lots))

\* ------------------------------------------------------------------- index
\* the list an item is appended to: inr_portfolio_data when its currency is
\* 'INR', usd_portfolio_data otherwise
Group(c) == IF c = "INR" THEN "INR" ELSE "USD"

\* Transaction.query.filter_by(tickersymbol, user_id)
\*   .order_by(Transaction.date).all(): the ids in any order of ascending date
DateOrders(txns, tickersymbol, user_id) ==
  LET ids == {i \in DOMAIN txns : /\ txns[i].tickersymbol = tickersymbol
                                  /\ txns[i].user_id = user_id}
  IN  {o \in [1..Cardinality(ids) -> ids] :
         /\ \A i, j \in DOMAIN o : i # j => o[i] # o[j]
         /\ \A i, j \in DOMAIN o : i < j => txns[o[i]].date <= txns[o[j]].date}

\* the flow of a transaction: lines 203-206
CashFlow(transaction) ==
  IF transaction.operation = "Buy"
  THEN (0 - transaction.quantity) * transaction.price
  ELSE transaction.quantity * transaction.price

ItemFlows_terminal_for_any_price(txns, order, quantity, latest_price) ==
  LET terminal == quantity > 0
  IN  [cash_flows |-> [i \in DOMAIN order |-> CashFlow(txns[order[i]])]
                        \o (IF terminal THEN <<quantity * latest_price>> ELSE <<>>),
       dates |-> [i \in DOMAIN order |-> txns[order[i]].date]
                   \o (IF terminal THEN <<Today>> ELSE <<>>)]

\* cash_flows and dates of an item: lines 196-212
ItemFlows(txns, order, quantity, latest_price) ==
  LET terminal == quantity > 0 /\ latest_price > 0
  IN  [cash_flows |-> [i \in DOMAIN order |-> CashFlow(txns[order[i]])]
                        \o (IF terminal THEN <<quantity * latest_price>> ELSE <<>>),
       dates |-> [i \in DOMAIN order |-> txns[order[i]].date]
                   \o (IF terminal THEN <<Today>> ELSE <<>>)]

\* item_data of the user's Portfolio rows before the percentages are set,
\* latest[t] being the price of the row the latest-price query returned and
\* order[t] the transactions as their query returned them; user_id is that of
\* the Portfolio row, flows are the lists built for calculate_xirr, which is
\* called when there is more than one flow
ItemData(txns, pf, cur, user, latest, order) ==
  [t \in PortfolioTickers(pf, user) |->
     [user_id |-> user,
      quantity |-> pf[<<user, t>>].quantity,
      latest_price |-> latest[t],
      value |-> pf[<<user, t>>].quantity * latest[t],
      flows |-> ItemFlows(txns, order[t], pf[<<user, t>>].quantity, latest[t]),
      percentage |-> Zero,
      currency |-> IF t \in DOMAIN cur THEN cur[t] ELSE "USD"]]

\* the rows the queries of index may return for each ticker of the user
QueryResults(txns, pf, prs, user) ==
  {q \in [latest : [PortfolioTickers(pf, user) -> {r.price : r \in BagToSet(prs)} \cup {0}],
          order : [PortfolioTickers(pf, user) ->
                     UNION {DateOrders(txns, t, user) : t \in PortfolioTickers(pf, user)}]] :
     \A t \in PortfolioTickers(pf, user) :
       /\ q.latest[t] \in LatestPrices(prs, t)
       /\ q.order[t] \in DateOrders(txns, t, user)}

\* usd_total_value and inr_total_value: 0.0 plus the values of the items
RECURSIVE TotalValue(_, _)
TotalValue(items, ts) ==
  IF ts = {} THEN Zero
  ELSE LET t == CHOOSE x \in ts : TRUE
       IN  Add(TotalValue(items, ts \ {t}), Float(items[t].value))

\* (item['value'] / total_value) * 100
Percentage(value, total_value) ==
  Mul(Div(Float(value), total_value), Float(100))

\* the percentages of the items of a list whose total is total_value
SetPercentage(item, total_value) ==
  IF NotPositive(total_value) THEN item
  ELSE [item EXCEPT !.percentage = Percentage(item.value, total_value)]

InGroup(items, group) == {t \in DOMAIN items : Group(items[t].currency) = group}

index_one_total(txns, pf, prs, cur, user) ==
  {LET items == ItemData(txns, pf, cur, user, q.latest, q.order)
   IN  [t \in DOMAIN items |->
          SetPercentage(items[t], TotalValue(items, DOMAIN items))]
   : q \in QueryResults(txns, pf, prs, user)}

\* GET /: the holdings handed to the template, one result per choice of the
\* latest price rows
index(txns, pf, prs, cur, user) ==
  {LET items == ItemData(txns, pf, cur, user, q.latest, q.order)
   IN  [t \in DOMAIN items |->
          SetPercentage(items[t],
                        TotalValue(items, InGroup(items, Group(items[t].currency))))]
   : q \in QueryResults(txns, pf, prs, user)}

\* ------------------------------------------------------------ the requests
NoResponse == [handler |-> "none", status |-> 0]

\* no ticker was looked up at the provider
NotAsked == [t \in {} |-> 0]

NoItems == [t \in {} |-> 0]

\* the currency column of the Stock table
StockCurrency == [t \in Stocks |-> IF t = "BBB" THEN "INR" ELSE "USD"]

\* the provider's answer for one ticker
Asked(t, hist) == [x \in {t} |-> hist]

\* no request has been served
Idle ==
  /\ response = NoResponse
  /\ requests = 0
  /\ history = NotAsked
  /\ portfolio_items = NoItems
  /\ in_flight = {}

LotDetailsIdle ==
  /\ lot_pc = "idle"
  /\ lot_rows = <<>>
  /\ lot_i = 0
  /\ matcher = NoLots
  /\ lot_report = <<>>

Init ==
  /\ transactions = [i \in {} |-> 0]
  /\ transaction_id_seq = 1
  /\ prices = EmptyBag
  /\ portfolio = [k \in {} |-> 0]
  /\ currency = StockCurrency
  /\ Idle
  /\ LotDetailsIdle
  /\ xirr = XirrIdle

\* a request completes; a handler that returned 400 or 404 never reached the
\* provider
Completes(out, handler, asked) ==
  /\ requests' = requests + 1
  /\ history' = IF out.status \in {400, 404} THEN NotAsked ELSE asked
  /\ transactions' = out.transactions
  /\ transaction_id_seq' = out.transaction_id_seq
  /\ prices' = out.prices
  /\ portfolio' = out.portfolio
  /\ response' = [handler |-> handler, status |-> out.status]
  /\ UNCHANGED <<currency, portfolio_items, in_flight, lot_vars, xirr>>

\* POST /add_transaction in the session of any user, while fewer than cap
\* requests have completed
AddTransactionWithin(cap) ==
  /\ requests < cap
  /\ transaction_id_seq <= MaxTxns
  /\ \E user \in Users, form \in Forms, hist \in Provider :
       \E out \in add_transaction(Db, user, form, hist) :
         Completes(out, "add_transaction", Asked(form.tickersymbol, hist))

AddTransaction == AddTransactionWithin(MaxRequests)

\* POST /edit_transaction/<id> in the session of any user
EditTransaction ==
  /\ requests < MaxRequests
  /\ \E user \in Users, id \in 1..MaxTxns, form \in Forms, hist \in Provider :
       \E out \in edit_transaction(Db, user, id, form, hist) :
         Completes(out, "edit_transaction", Asked(form.tickersymbol, hist))

\* GET /delete_transaction/<id> in the session of any user
DeleteTransaction ==
  /\ requests < MaxRequests
  /\ \E user \in Users, id \in 1..MaxTxns :
       \E out \in delete_transaction(Db, user, id) :
         Completes(out, "delete_transaction", NotAsked)

Next == AddTransaction \/ EditTransaction \/ DeleteTransaction

Spec == Init /\ [][Next]_vars

\* the same requests, issued only by the user who owns the transaction
AddOwnTransaction == AddTransactionWithin(MaxOwnerRequests)

EditOwnTransaction ==
  /\ requests < MaxOwnerRequests
  /\ \E id \in DOMAIN transactions, form \in Forms, hist \in Provider :
       \E out \in edit_transaction(Db, transactions[id].user_id, id, form, hist) :
         Completes(out, "edit_transaction", Asked(form.tickersymbol, hist))

DeleteOwnTransaction ==
  /\ requests < MaxOwnerRequests
  /\ \E id \in DOMAIN transactions :
       \E out \in delete_transaction(Db, transactions[id].user_id, id) :
         Completes(out, "delete_transaction", NotAsked)

NextOwner == AddOwnTransaction \/ EditOwnTransaction \/ DeleteOwnTransaction

SpecOwner == Init /\ [][NextOwner]_vars

NextAddEdit == AddOwnTransaction \/ EditOwnTransaction

SpecAddEdit == Init /\ [][NextAddEdit]_vars

\* the requests of the administrator on the Price table
AddPrice ==
  /\ requests < MaxOwnerRequests
  /\ \E form \in PriceForms :
       \E out \in add_price(Db, form) : Completes(out, "add_price", NotAsked)

EditPrice ==
  /\ requests < MaxOwnerRequests
  /\ \E price_entry \in BagToSet(prices), form \in PriceForms :
       \E out \in edit_price(Db, price_entry, form) :
         Completes(out, "edit_price", NotAsked)

DeletePrice ==
  /\ requests < MaxOwnerRequests
  /\ \E price_entry \in BagToSet(prices) :
       \E out \in delete_price(Db, price_entry) :
         Completes(out, "delete_price", NotAsked)

UpdatePricesFromGoogle ==
  /\ requests < MaxOwnerRequests
  /\ \E hists \in Histories :
       \E out \in update_prices_from_google(Db, hists) :
         Completes(out, "update_prices_from_google", hists)

\* POST /login: the provider is asked for the tickers of the user's portfolio
Login ==
  /\ requests < MaxOwnerRequests
  /\ \E user \in Users, hists \in Histories :
       \E out \in login(Db, user, hists) :
         Completes(out, "login",
                   [t \in PortfolioTickers(portfolio, user) |-> hists[t]])

NextPrices ==
  \/ AddOwnTransaction \/ EditOwnTransaction \/ DeleteOwnTransaction
  \/ AddPrice \/ EditPrice \/ DeletePrice \/ UpdatePricesFromGoogle \/ Login

SpecPrices == Init /\ [][NextPrices]_vars

\* GET / in the session of any user; the exchange rate it asks the provider
\* for is only handed to the template
Index ==
  /\ \E user \in Users :
       \E items \in index(transactions, portfolio, prices, currency, user) :
         portfolio_items' = items
  /\ response' = [handler |-> "index", status |-> 200]
  /\ history' = NotAsked
  /\ UNCHANGED <<table_vars, currency, requests, in_flight, lot_vars, xirr>>

\* the currencies of the stocks are any of these
Currencies == {"USD", "INR"}

InitIndex ==
  /\ transactions = [i \in {} |-> 0]
  /\ transaction_id_seq = 1
  /\ prices = EmptyBag
  /\ portfolio = [k \in {} |-> 0]
  /\ currency \in [Stocks -> Currencies]
  /\ Idle
  /\ LotDetailsIdle
  /\ xirr = XirrIdle

NextIndex == AddOwnTransaction \/ UpdatePricesFromGoogle \/ Index

SpecIndex == InitIndex /\ [][NextIndex]_vars

\* ------------------------------------------- add_transaction, interleaved
\* POST /add_transaction served by several threads at once: each request
\* takes its steps between the commits of the others.  in_flight keeps the
\* requests with the step they have reached, the id of the row they
\* inserted (0 before the insert) and the total_quantity and latest_price
\* their update_portfolio has read.
MaxConcurrent == 2

\* the tables after one add_transaction of a Buy
InitConcurrent ==
  /\ \E user \in Users, form \in Forms, hist \in Provider :
       /\ form.operation = "Buy"
       /\ \E out \in add_transaction(
                        [transactions |-> [i \in {} |-> 0], transaction_id_seq |-> 1,
                         prices |-> EmptyBag, portfolio |-> [k \in {} |-> 0]],
                        user, form, hist) :
            /\ out.status = 200
            /\ transactions = out.transactions
            /\ transaction_id_seq = out.transaction_id_seq
            /\ prices = out.prices
            /\ portfolio = out.portfolio
  /\ currency = StockCurrency
  /\ Idle
  /\ LotDetailsIdle
  /\ xirr = XirrIdle

\* lines 581-596: the form, the stock lookup and the validation of a Sell
ReceiveAddTransaction ==
  /\ Cardinality(in_flight) < MaxConcurrent
  /\ \E user \in Users, form \in Forms :
       LET status ==
             IF form.tickersymbol \notin Stocks THEN 404
             ELSE IF /\ form.operation = "Sell"
                     /\ form.quantity >
                          get_current_stock_quantity(transactions, form.tickersymbol,
                                                     form.date, user, 0)
             THEN 400
             ELSE 0
           request == [rid |-> Cardinality(in_flight) + 1, user |-> user,
                       form |-> form, id |-> 0,
                       total_quantity |-> 0, latest_price |-> 0,
                       pc |-> IF status = 0 THEN "validated" ELSE "rejected"]
       IN  /\ in_flight' = in_flight \cup {request}
           /\ IF status = 0
              THEN UNCHANGED <<response, requests, history>>
              ELSE /\ response' = [handler |-> "add_transaction", status |-> status]
                   /\ requests' = requests + 1
                   /\ history' = NotAsked
  /\ UNCHANGED <<table_vars, currency, portfolio_items, lot_vars, xirr>>

\* lines 598-600: the insert and its commit
InsertTransaction ==
  /\ \E r \in in_flight :
       /\ r.pc = "validated"
       /\ LET id == transaction_id_seq
               new_transaction ==
                 [user_id |-> r.user, tickersymbol |-> r.form.tickersymbol,
                  operation |-> r.form.operation, quantity |-> r.form.quantity,
                  date |-> r.form.date, price |-> r.form.price]
           IN  /\ transactions' = [i \in DOMAIN transactions \cup {id} |->
                                     IF i = id THEN new_transaction ELSE transactions[i]]
               /\ transaction_id_seq' = id + 1
               /\ in_flight' = (in_flight \ {r})
                                 \cup {[r EXCEPT !.pc = "committed", !.id = id]}
  /\ UNCHANGED <<prices, portfolio, currency, response, requests, history,
                 portfolio_items, lot_vars, xirr>>

\* lines 602-632: the prices, their commit, update_portfolio, the response
RespondAddTransaction ==
  /\ \E r \in in_flight, hist \in Provider :
       /\ r.pc = "committed"
       /\ \E out \in PricesAndPortfolio(transactions, transaction_id_seq, prices,
                                         portfolio, r.form.tickersymbol, r.form.date,
                                         r.form.price, hist, r.user, 200) :
            /\ prices' = out.prices
            /\ portfolio' = out.portfolio
       /\ in_flight' = (in_flight \ {r}) \cup {[r EXCEPT !.pc = "done"]}
       /\ history' = Asked(r.form.tickersymbol, hist)
  /\ response' = [handler |-> "add_transaction", status |-> 200]
  /\ requests' = requests + 1
  /\ UNCHANGED <<transactions, transaction_id_seq, currency, portfolio_items,
                 lot_vars, xirr>>

NextConcurrent == ReceiveAddTransaction \/ InsertTransaction \/ RespondAddTransaction

SpecConcurrent == InitConcurrent /\ [][NextConcurrent]_vars

\* the same requests with update_portfolio taken statement by statement
\* lines 602-629: the price of the transaction's date, today's price, commit
CommitPrices ==
  /\ \E r \in in_flight, hist \in Provider :
       /\ r.pc = "committed"
       /\ \E q1 \in UpsertPrice(prices, r.form.tickersymbol, r.form.date, r.form.price) :
            prices' \in FetchLatestPrice(q1, r.form.tickersymbol, hist)
       /\ in_flight' = (in_flight \ {r}) \cup {[r EXCEPT !.pc = "priced"]}
       /\ history' = Asked(r.form.tickersymbol, hist)
  /\ UNCHANGED <<transactions, transaction_id_seq, portfolio, currency, response,
                 requests, portfolio_items, lot_vars, xirr>>

\* update_portfolio, lines 388-405: the sums and the latest price
ReadSums ==
  /\ \E r \in in_flight :
       /\ r.pc = "priced"
       /\ \E latest_price \in LatestPrices(prices, r.form.tickersymbol) :
            in_flight' =
              (in_flight \ {r})
                \cup {[r EXCEPT !.pc = "read",
                                !.total_quantity =
                                  TotalQuantity(transactions, r.form.tickersymbol, r.user),
                                !.latest_price = latest_price]}
  /\ UNCHANGED <<table_vars, currency, response, requests, history,
                 portfolio_items, lot_vars, xirr>>

\* update_portfolio, lines 410-422, and the response of line 632
WritePortfolio ==
  /\ \E r \in in_flight :
       /\ r.pc = "read"
       /\ portfolio' = WrittenPortfolio(r.total_quantity, r.latest_price, portfolio,
                                        r.form.tickersymbol, r.user)
       /\ in_flight' = (in_flight \ {r}) \cup {[r EXCEPT !.pc = "done"]}
  /\ response' = [handler |-> "add_transaction", status |-> 200]
  /\ requests' = requests + 1
  /\ UNCHANGED <<transactions, transaction_id_seq, prices, currency, history,
                 portfolio_items, lot_vars, xirr>>

NextRecompute ==
  \/ ReceiveAddTransaction \/ InsertTransaction
  \/ CommitPrices \/ ReadSums \/ WritePortfolio

SpecRecompute == InitConcurrent /\ [][NextRecompute]_vars

\* --------------------------------------------------- lot_details, stepwise
\* GET /lot_details/<tickersymbol> in the session of LotUser.  The ledger it
\* reads is any ledger of one owner and ticker of at most MaxRows rows, or
\* the ledger of the worked example.
MaxRows == 3
LotUser == 1
LotTicker == "AAA"
LedgerPrices == PriceValues \cup ClosePrices

LedgerRows ==
  [user_id : {LotUser}, tickersymbol : {LotTicker}, operation : Operations,
   quantity : Quantities, date : Dates, price : LedgerPrices]

\* Buy 10 at 10 on 2024-01-01, Buy 10 at 12 on 2024-02-01, Sell 15 at 20 on
\* 2024-03-01; the dates are the days of the year
ExampleLedger ==
  <<[user_id |-> LotUser, tickersymbol |-> LotTicker, operation |-> "Buy",
     quantity |-> 10, date |-> 1, price |-> 10],
    [user_id |-> LotUser, tickersymbol |-> LotTicker, operation |-> "Buy",
     quantity |-> 10, date |-> 32, price |-> 12],
    [user_id |-> LotUser, tickersymbol |-> LotTicker, operation |-> "Sell",
     quantity |-> 15, date |-> 61, price |-> 20]>>

InitLots ==
  /\ transactions \in
       UNION {[1..n -> LedgerRows] : n \in 0..MaxRows} \cup {ExampleLedger}
  /\ transaction_id_seq = Len(transactions) + 1
  /\ prices \in {EmptyBag} \cup {SetToBag({PriceRow(LotTicker, Today, p)}) : p \in ClosePrices}
  /\ portfolio = [k \in {} |-> 0]
  /\ currency = StockCurrency
  /\ Idle
  /\ LotDetailsIdle
  /\ xirr = XirrIdle

\* lines 773-785: the query and the empty lists
LotDetailsQuery ==
  /\ lot_pc = "idle"
  /\ lot_rows' = OrderedTransactions(transactions, LotTicker, LotUser)
  /\ lot_i' = 1
  /\ matcher' = NoLots
  /\ lot_pc' = "for"
  /\ UNCHANGED <<lot_report, ledger_vars, xirr>>

\* a Buy row: lines 788-798
LotBuyRow ==
  /\ lot_pc = "for"
  /\ lot_i <= Len(lot_rows)
  /\ lot_rows[lot_i].operation = "Buy"
  /\ matcher' = LotBuy(matcher, lot_rows[lot_i])
  /\ lot_i' = lot_i + 1
  /\ UNCHANGED <<lot_pc, lot_rows, lot_report, ledger_vars, xirr>>

\* a Sell row: lines 799-802
LotSellRow ==
  /\ lot_pc = "for"
  /\ lot_i <= Len(lot_rows)
  /\ lot_rows[lot_i].operation = "Sell"
  /\ matcher' = [matcher EXCEPT !.sell_quantity = lot_rows[lot_i].quantity]
  /\ lot_pc' = "while"
  /\ UNCHANGED <<lot_i, lot_rows, lot_report, ledger_vars, xirr>>

\* one pass of the while loop: lines 803-836
LotWhilePass ==
  /\ lot_pc = "while"
  /\ matcher.sell_quantity > 0 /\ matcher.open_lots # <<>>
  /\ matcher' = LotSellStep(matcher, lot_rows[lot_i])
  /\ UNCHANGED <<lot_pc, lot_i, lot_rows, lot_report, ledger_vars, xirr>>

\* the while condition fails: on to the next row
LotWhileExit ==
  /\ lot_pc = "while"
  /\ ~(matcher.sell_quantity > 0 /\ matcher.open_lots # <<>>)
  /\ lot_i' = lot_i + 1
  /\ lot_pc' = "for"
  /\ UNCHANGED <<matcher, lot_rows, lot_report, ledger_vars, xirr>>

\* lots.sort(key=lambda x: x['date'], reverse=True): a stable sort, so lots
\* of one date keep their order
RECURSIVE SortByDateDesc(_)
SortByDateDesc(lots) ==
  IF lots = <<>> THEN <<>>
  ELSE LET k == CHOOSE i \in 1..Len(lots) :
                  /\ \A j \in 1..Len(lots) : lots[j].date <= lots[i].date
                  /\ \A j \in 1..(i - 1) : lots[j].date < lots[i].date
       IN  <<lots[k]>> \o SortByDateDesc(SubSeq(lots, 1, k - 1) \o SubSeq(lots, k + 1, Len(lots)))

\* lines 839-842 for one lot
Valued(lot, latest_price) ==
  [id |-> lot.id, purchased_quantity |-> lot.purchased_quantity,
   balance_quantity |-> lot.balance_quantity, price |-> lot.price,
   date |-> lot.date, sales_from_lot |-> lot.sales_from_lot,
   cost_basis |-> lot.balance_quantity * lot.price,
   current_value |-> lot.balance_quantity * latest_price,
   unrealized_gain |-> (lot.balance_quantity * latest_price)
                         - (lot.balance_quantity * lot.price)]

\* after the last row: lines 838-863
LotValuation ==
  /\ lot_pc = "for"
  /\ lot_i > Len(lot_rows)
  /\ \E latest_price \in LatestPrices(prices, LotTicker) :
       lot_report' = SortByDateDesc([k \in 1..Len(matcher.lots) |->
                                       Valued(matcher.lots[k], latest_price)])
  /\ lot_pc' = "done"
  /\ UNCHANGED <<lot_i, lot_rows, matcher, ledger_vars, xirr>>

NextLots ==
  \/ LotDetailsQuery
  \/ LotBuyRow
  \/ LotSellRow
  \/ LotWhilePass
  \/ LotWhileExit
  \/ LotValuation

SpecLots == InitLots /\ [][NextLots]_vars

\* -------------------------------------------------- calculate_xirr, stepwise
MaxFlows == 3
CashFlows == {-1000, 1, 1100}
FlowDates == {0, 365, 730}

FlowLists(values) == UNION {[1..n -> values] : n \in 0..MaxFlows}

\* -100 on day 0 and +110 a year later
ExampleCashFlows == <<-100, 110>>
ExampleFlowDates == <<0, 365>>

\* the lists of cash flows passed: of the values above, of zeros alone, and
\* the example
CashFlowLists == FlowLists(CashFlows) \cup FlowLists({0}) \cup {ExampleCashFlows}

InitXirr ==
  /\ transactions = [i \in {} |-> 0]
  /\ transaction_id_seq = 1
  /\ prices = EmptyBag
  /\ portfolio = [k \in {} |-> 0]
  /\ currency = StockCurrency
  /\ Idle
  /\ LotDetailsIdle
  /\ \E cash_flows \in CashFlowLists, dates \in FlowLists(FlowDates) :
       xirr = [pc |-> "called", cash_flows |-> cash_flows, dates |-> dates,
               sorted_data |-> <<>>, guess |-> DefaultGuess, i |-> 0,
               rate |-> None, result |-> None]

\* the guesses a caller passes: the default, and rates around -1
CallerGuesses ==
  {DefaultGuess, Neg(One), Float(-2), Neg(Div(One, Float(2)))}

\* a call of calculate_xirr with a guess of the caller
InitXirrGuess ==
  /\ transactions = [i \in {} |-> 0]
  /\ transaction_id_seq = 1
  /\ prices = EmptyBag
  /\ portfolio = [k \in {} |-> 0]
  /\ currency = StockCurrency
  /\ Idle
  /\ LotDetailsIdle
  /\ \E cash_flows \in CashFlowLists, dates \in FlowLists(FlowDates),
        guess \in CallerGuesses :
       xirr = [pc |-> "called", cash_flows |-> cash_flows, dates |-> dates,
               sorted_data |-> <<>>, guess |-> guess, i |-> 0,
               rate |-> None, result |-> None]

\* lines 32-33: no flows, or lists of different lengths
XirrNoResult ==
  /\ xirr.pc = "called"
  /\ Len(xirr.cash_flows) = 0 \/ Len(xirr.cash_flows) # Len(xirr.dates)
  /\ xirr' = [xirr EXCEPT !.pc = "returned", !.result = None]
  /\ UNCHANGED <<ledger_vars, lot_vars>>

\* lines 36-38: the sorted pairs, from which the loop takes its two lists
XirrSort ==
  /\ xirr.pc = "called"
  /\ Len(xirr.cash_flows) # 0 /\ Len(xirr.cash_flows) = Len(xirr.dates)
  /\ xirr' = [xirr EXCEPT !.pc = "loop",
                          !.sorted_data = sorted_data(xirr.dates, xirr.cash_flows)]
  /\ UNCHANGED <<ledger_vars, lot_vars>>

\* the solver after a pass: returned, or in the loop with the next guess
XirrAfter(step) ==
  IF step.returns
  THEN [xirr EXCEPT !.pc = "returned", !.result = step.value]
  ELSE [xirr EXCEPT !.guess = step.value, !.i = xirr.i + 1]

\* lines 41-60: one pass of the loop; rate is the argument of its call of
\* _xnpv (line 45), which is the rate of its derivative too (line 54)
XirrIteration ==
  /\ xirr.pc = "loop"
  /\ xirr.i < MaxIterations
  /\ xirr' = [XirrAfter(XirrStep(xirr.guess,
                                 SortedCashFlows(xirr.sorted_data),
                                 SortedDates(xirr.sorted_data)))
              EXCEPT !.rate = IF XirrGuard(xirr.guess) THEN @ ELSE xirr.guess]
  /\ UNCHANGED <<ledger_vars, lot_vars>>

\* line 62: the loop ran out
XirrDidNotConverge ==
  /\ xirr.pc = "loop"
  /\ xirr.i = MaxIterations
  /\ xirr' = [xirr EXCEPT !.pc = "returned", !.result = None]
  /\ UNCHANGED <<ledger_vars, lot_vars>>

NextXirr == XirrNoResult \/ XirrSort \/ XirrIteration \/ XirrDidNotConverge

SpecXirr == InitXirr /\ [][NextXirr]_vars

SpecXirrGuess == InitXirrGuess /\ [][NextXirr]_vars

\* ------------------------------------------------------ ledger properties
Bought(txns, u, t, D) ==
  SumQuantity(txns, {i \in DOMAIN txns : /\ txns[i].user_id = u
                                         /\ txns[i].tickersymbol = t
                                         /\ txns[i].operation = "Buy"
                                         /\ txns[i].date <= D})

Sold(txns, u, t, D) ==
  SumQuantity(txns, {i \in DOMAIN txns : /\ txns[i].user_id = u
                                         /\ txns[i].tickersymbol = t
                                         /\ txns[i].operation = "Sell"
                                         /\ txns[i].date <= D})

LastDate == CHOOSE d \in Dates : \A e \in Dates : e <= d

NetQuantity(txns, u, t) == Bought(txns, u, t, LastDate) - Sold(txns, u, t, LastDate)

InStep(txns, pf, u, t) ==
  /\ <<u, t>> \in DOMAIN pf <=> NetQuantity(txns, u, t) # 0
  /\ <<u, t>> \in DOMAIN pf => pf[<<u, t>>].quantity = NetQuantity(txns, u, t)

SameTables(out) ==
  /\ out.transactions = transactions
  /\ out.prices = prices
  /\ out.portfolio = portfolio

\* C1: in every reachable ledger, for every owner, ticker and date D, the
\* Sell quantity dated on or before D is at most the Buy quantity dated on
\* or before D.
SellsCoveredAtEveryDate ==
  \A u \in Users, t \in Stocks, D \in Dates :
    Sold(transactions, u, t, D) <= Bought(transactions, u, t, D)

\* C2: an add_transaction for an unknown ticker, or for a Sell of more than
\* the owner's Buy minus Sell quantity dated on or before its date, answers
\* with an error and leaves the Transaction, Price and Portfolio tables as
\* they were.
AddRejectionKeepsTables ==
  \A user \in Users, form \in Forms, hist \in Provider :
    (\/ form.tickersymbol \notin Stocks
     \/ /\ form.operation = "Sell"
        /\ form.quantity > Bought(transactions, user, form.tickersymbol, form.date)
                             - Sold(transactions, user, form.tickersymbol, form.date))
    => \A out \in add_transaction(Db, user, form, hist) :
         out.status \in {400, 404} /\ SameTables(out)

\* a Sell was rejected for insufficient quantity while some holding exists
AddRejectionSeen ==
  /\ response = [handler |-> "add_transaction", status |-> 400]
  /\ \E u \in Users, t \in Stocks : NetQuantity(transactions, u, t) > 0

\* C3: an edit_transaction that is rejected leaves the Transaction, Price and
\* Portfolio tables as they were; an edit by the owner is rejected exactly
\* when the new ticker is unknown or the edited Sell exceeds the holdings as
\* of its date over the owner's other transactions of the ticker.
EditRejectionKeepsTables ==
  \A user \in Users, id \in DOMAIN transactions, form \in Forms :
    LET others == [i \in DOMAIN transactions \ {id} |-> transactions[i]]
        must_reject ==
          \/ form.tickersymbol \notin Stocks
          \/ /\ form.operation = "Sell"
             /\ form.quantity > Bought(others, user, form.tickersymbol, form.date)
                                  - Sold(others, user, form.tickersymbol, form.date)
        status == edit_validation(Db, user, id, form)
    IN  /\ user = transactions[id].user_id => (must_reject <=> status \in {400, 404})
        /\ status # 0 =>
             \A hist \in Provider :
               \A out \in edit_transaction(Db, user, id, form, hist) :
                 out.status = status /\ SameTables(out)

\* an edit was rejected for insufficient quantity
EditRejectionSeen ==
  /\ response = [handler |-> "edit_transaction", status |-> 400]
  /\ transactions # [i \in {} |-> 0]

\* C4: after every completed request the Portfolio row of every owner and
\* ticker exists exactly when the net quantity is non-zero, and carries it.
PortfolioMatchesLedger ==
  response # NoResponse =>
    \A u \in Users, t \in Stocks : InStep(transactions, portfolio, u, t)

\* C5: an edit_transaction or delete_transaction in the session of a user
\* who does not own the transaction leaves it as it is, and leaves the
\* owner's Portfolio rows in step with the owner's ledger.
OnlyOwnerChangesTransaction ==
  \A user \in Users, id \in DOMAIN transactions :
    transactions[id].user_id # user =>
      LET owner == transactions[id].user_id
          outs == delete_transaction(Db, user, id)
                    \cup UNION {edit_transaction(Db, user, id, form, hist) :
                                  form \in Forms, hist \in Provider}
      IN  \A out \in outs :
            /\ id \in DOMAIN out.transactions
            /\ out.transactions[id] = transactions[id]
            /\ \A t \in Stocks :
                 InStep(transactions, portfolio, owner, t)
                   => InStep(out.transactions, out.portfolio, owner, t)

\* C7: in a ledger built by add_transaction and edit_transaction whose Sells
\* are covered at every date (what the sell-quantity check compares), the
\* matcher, taking the rows in (date, id) order, matches every Sell in full:
\* no Sell leaves its loop with quantity still to match.
ValidatedSellsFullyMatched ==
  SellsCoveredAtEveryDate =>
    \A u \in Users, t \in Stocks :
      LET ts == OrderedTransactions(transactions, t, u)
      IN  \A n \in 1..Len(ts) :
            ts[n].operation = "Sell" => LotLoop(ts, n).sell_quantity = 0

\* ----------------------------------------------------- matcher properties
RECURSIVE SumOver(_, _, _)
SumOver(f(_), seq, n) == IF n = 0 THEN 0 ELSE SumOver(f, seq, n - 1) + f(seq[n])

Balance(lot) == lot.balance_quantity
BalanceCost(lot) == lot.balance_quantity * lot.price
ReportedCost(lot) == lot.cost_basis
LotQuantity(lot) == lot.quantity
SignedQuantity(t) == IF t.operation = "Buy" THEN t.quantity ELSE 0 - t.quantity

\* Buy minus Sell quantity of the first n rows
NetOfRows(ts, n) == SumOver(SignedQuantity, ts, n)

\* the quantity left in the lots of lot_details and of calculate_fifo_cost_basis
RemainingInLots == SumOver(Balance, matcher.lots, Len(matcher.lots))
RemainingInBasisLots ==
  LET lots == FifoBasisLots(lot_rows, Len(lot_rows))
  IN  SumOver(LotQuantity, lots, Len(lots))

\* every Sell is at most the Buy minus Sell quantity of the rows before it
EverySellCovered(ts) ==
  \A n \in 1..Len(ts) :
    ts[n].operation = "Sell" => ts[n].quantity <= NetOfRows(ts, n - 1)

\* C6 as claimed: for any sequence, the remaining quantities of the lots sum
\* to the Buy quantity minus the Sell quantity.
RemainingEqualsNet ==
  lot_pc = "done" =>
    /\ RemainingInLots = NetOfRows(lot_rows, Len(lot_rows))
    /\ RemainingInBasisLots = NetOfRows(lot_rows, Len(lot_rows))

\* C6 as amended: the remaining quantities sum to the Buy minus Sell quantity
\* when every Sell, in (date, id) order, is at most the Buy minus Sell
\* quantity of the rows before it; in every other sequence they sum to more.
RemainingEqualsNetWhenCovered ==
  lot_pc = "done" =>
    LET net == NetOfRows(lot_rows, Len(lot_rows))
    IN  /\ RemainingInLots = RemainingInBasisLots
        /\ EverySellCovered(lot_rows) => RemainingInLots = net
        /\ ~EverySellCovered(lot_rows) => RemainingInLots > net

\* a covered Sell has taken part of a lot and left the rest
PartialSaleMatched ==
  /\ lot_pc = "done"
  /\ EverySellCovered(lot_rows)
  /\ \E k \in 1..Len(matcher.lots) :
       /\ matcher.lots[k].sales_from_lot # <<>>
       /\ matcher.lots[k].balance_quantity > 0

\* C8: for the ledger Buy 10 at 10, Buy 10 at 12, Sell 15 at 20 the first lot
\* ends with balance 0 and one sale event of 10 units with gain 100, the
\* second with balance 5 and one sale event of 5 units with gain 40, the only
\* lot with a positive balance is 5 units at 12 and the FIFO cost basis is
\* 60; and every sale event's gain is (sale price - lot price) times the
\* quantity taken from the lot.
ExampleLots ==
  /\ (lot_pc = "done" /\ transactions = ExampleLedger) =>
       /\ Len(matcher.lots) = 2
       /\ matcher.lots[1].balance_quantity = 0
       /\ Len(matcher.lots[1].sales_from_lot) = 1
       /\ matcher.lots[1].sales_from_lot[1].sold_quantity = 10
       /\ matcher.lots[1].sales_from_lot[1].realized_gain = 100
       /\ matcher.lots[2].balance_quantity = 5
       /\ Len(matcher.lots[2].sales_from_lot) = 1
       /\ matcher.lots[2].sales_from_lot[1].sold_quantity = 5
       /\ matcher.lots[2].sales_from_lot[1].realized_gain = 40
       /\ matcher.lots[2].price = 12
       /\ \A k \in 1..Len(lot_report) :
            lot_report[k].balance_quantity > 0 =>
              lot_report[k].balance_quantity = 5 /\ lot_report[k].price = 12
       /\ calculate_fifo_cost_basis(transactions, LotTicker, LotUser, 5) = 60
  /\ \A k \in 1..Len(matcher.lots) :
       LET lot == matcher.lots[k]
       IN  /\ lot.purchased_quantity =
                lot.balance_quantity
                  + SumOver(LAMBDA e : e.sold_quantity, lot.sales_from_lot,
                            Len(lot.sales_from_lot))
           /\ \A j \in 1..Len(lot.sales_from_lot) :
                LET sale == lot.sales_from_lot[j]
                IN  sale.realized_gain
                      = (sale.sale_price - lot.price) * sale.sold_quantity

\* lot_details has finished on the ledger of the example
ExampleMatched ==
  /\ lot_pc = "done"
  /\ transactions = ExampleLedger
  /\ Len(lot_report) = 2

\* C9: the cost basis of calculate_fifo_cost_basis equals the sum over the
\* lots of lot_details of balance_quantity times price (its cost_basis
\* fields), and both equal the sum of remaining quantity times unit cost
\* over the open lots.
CostBasisAgrees ==
  lot_pc = "done" =>
    LET basis == calculate_fifo_cost_basis(transactions, LotTicker, LotUser, 0)
        open == [k \in 1..Len(matcher.open_lots) |-> matcher.lots[matcher.open_lots[k]]]
    IN  /\ basis = SumOver(ReportedCost, lot_report, Len(lot_report))
        /\ basis = SumOver(BalanceCost, open, Len(open))

\* both matchers have run on a ledger with two lots of different prices and a
\* sale, and lots remain
CostBasisCompared ==
  /\ lot_pc = "done"
  /\ Len(matcher.lots) >= 2
  /\ matcher.lots[1].price # matcher.lots[2].price
  /\ matcher.lots[1].sales_from_lot # <<>>
  /\ matcher.open_lots # <<>>

\* ------------------------------------------------------------ XIRR properties
\* the list with its elements in the order the permutation p names
Permuted(list, p) == [i \in 1..Len(list) |-> list[p[i]]]

\* C10: calculate_xirr returns the same result, None included, for the flows
\* in the order the caller passed them and for every permutation of them,
\* applied to the cash flows and the dates alike.
XirrIgnoresCallerOrder ==
  (xirr.pc = "returned" /\ Len(xirr.cash_flows) = Len(xirr.dates)) =>
    \A p \in Permutations(1..Len(xirr.cash_flows)) :
      calculate_xirr(Permuted(xirr.cash_flows, p), Permuted(xirr.dates, p),
                     DefaultGuess) = xirr.result

\* a rate was returned for flows passed out of order: a later date first, and
\* of two flows of one date the larger first
UnorderedFlowsSolved ==
  /\ xirr.pc = "returned"
  /\ xirr.result # None
  /\ Len(xirr.cash_flows) = Len(xirr.dates)
  /\ \E i, j \in 1..Len(xirr.dates) :
       i < j /\ xirr.dates[i] > xirr.dates[j]
  /\ \E i, j \in 1..Len(xirr.dates) :
       /\ i < j
       /\ xirr.dates[i] = xirr.dates[j]
       /\ xirr.cash_flows[i] > xirr.cash_flows[j]

\* the npv and the derivative of the pass the solver is in or returned from
PassNpv == _xnpv(xirr.guess, SortedCashFlows(xirr.sorted_data), SortedDates(xirr.sorted_data))

PassDerivative ==
  DerivLoop(xirr.guess, SortedCashFlows(xirr.sorted_data),
            SortedDates(xirr.sorted_data), Len(xirr.sorted_data))

\* the solver returned or raised out of a pass that computed deriv_npv
ReturnedFromPass ==
  /\ xirr.pc = "returned"
  /\ xirr.sorted_data # <<>>
  /\ xirr.i < MaxIterations
  /\ ~NotPositive(Add(One, xirr.guess))
  /\ ~IsRaised(PassNpv)

\* C11: given fewer than 2 cash flows, or lists of different lengths,
\* calculate_xirr returns None and raises nothing, also for one flow of 0.
XirrNoneBelowTwoFlows ==
  (/\ xirr.pc = "returned"
   /\ Len(xirr.cash_flows) < 2 \/ Len(xirr.cash_flows) # Len(xirr.dates))
  => xirr.result = None

\* C12: a pass whose deriv_npv is exactly zero returns None, never a rate.
XirrNoneOnZeroDerivative ==
  (ReturnedFromPass /\ IsZero(PassDerivative)) => xirr.result = None

\* C13: the solver makes at most MaxIterations passes from guess 0.1 and
\* returns None unless a pass met the convergence test, in which case it
\* returns the guess of that pass; it raises nothing.
XirrNoneUnlessConverged ==
  xirr.pc = "returned" =>
    /\ xirr.i <= MaxIterations
    /\ \/ xirr.result = None
       \/ ReturnedFromPass /\ WithinTolerance(PassNpv) /\ xirr.result = xirr.guess

\* C14: every value r returned other than None has 1 + r > 0 and
\* abs(_xnpv(r)) < 0.000001 on the sorted flows.
XirrRateSolvesNpv ==
  (xirr.pc = "returned" /\ xirr.result.kind \in {"finite", "inf", "nan"}) =>
    /\ ~NotPositive(Add(One, xirr.result))
    /\ WithinTolerance(_xnpv(xirr.result, SortedCashFlows(xirr.sorted_data),
                             SortedDates(xirr.sorted_data)))

\* a rate was returned after the guess had been updated at least once
RateFoundByNewtonStep ==
  /\ xirr.pc = "returned"
  /\ xirr.result.kind = "finite"
  /\ xirr.i >= 1
  /\ Len(xirr.cash_flows) >= 2

\* abs(a - b) < 0.0001
WithinTenThousandth(a, b) ==
  LET difference == Sub(a, b)
  IN  difference.kind = "finite" /\ (difference.m = 0 \/ difference.e + Precision <= -4)

\* C15: for -100 on day 0 and +110 365 days later calculate_xirr returns a
\* rate within 0.0001 of 0.10.
XirrExampleRate ==
  (/\ xirr.pc = "returned"
   /\ xirr.sorted_data = Zip(ExampleFlowDates, ExampleCashFlows))
  => WithinTenThousandth(xirr.result, Div(One, Float(10)))

\* the example was solved
XirrExampleSolved ==
  /\ xirr.pc = "returned"
  /\ xirr.cash_flows = ExampleCashFlows
  /\ xirr.dates = ExampleFlowDates
  /\ xirr.result.kind = "finite"

\* ------------------------------------------------------ valuation properties
\* the percentage fields of the holdings ts, added up
RECURSIVE SumPercentage(_, _)
SumPercentage(items, ts) ==
  IF ts = {} THEN Zero
  ELSE LET t == CHOOSE x \in ts : TRUE
       IN  Add(SumPercentage(items, ts \ {t}), items[t].percentage)

\* a is 100 up to one unit in the last place of 100
NearHundred(a) ==
  LET difference == Sub(a, Float(100))
  IN  difference.kind = "finite"
        /\ (difference.m = 0 \/ difference.e + Precision <= 3 - Precision)

\* the percentages of the holdings ts sum to 100 when their total value is
\* greater than 0 and are all 0 when it is 0
PercentagesSumOver(items, ts) ==
  LET total_value == TotalValue(items, ts)
  IN  /\ ~NotPositive(total_value) => NearHundred(SumPercentage(items, ts))
      /\ IsZero(total_value) => \A t \in ts : IsZero(items[t].percentage)

\* C16, as claimed: the percentages of all the holdings index lists sum to
\* 100 when the total value of the holdings is greater than 0, and all are 0
\* when it is 0.
PercentagesSumOverAllHoldings ==
  response.handler = "index" =>
    PercentagesSumOver(portfolio_items, DOMAIN portfolio_items)

\* C16, amended: within each of the two lists index builds, the INR holdings
\* and the others, the percentages sum to 100 when the total value of the
\* list is greater than 0, and all are 0 when it is 0.
PercentagesSumWithinCurrency ==
  response.handler = "index" =>
    \A group \in Currencies :
      PercentagesSumOver(portfolio_items, InGroup(portfolio_items, group))

\* index listed two holdings of different value in one currency
TwoHoldingsOfOneCurrency ==
  /\ response.handler = "index"
  /\ \E t, u \in DOMAIN portfolio_items :
       /\ Group(portfolio_items[t].currency) = Group(portfolio_items[u].currency)
       /\ portfolio_items[t].value > portfolio_items[u].value
       /\ portfolio_items[u].value > 0

\* how often v occurs among the first n elements of list
Occurrences(list, n, v) == Cardinality({i \in 1..n : list[i] = v})

\* the value of item is its quantity times the price of a Price row of ticker
\* t of the greatest date, and 0 when the ticker has no row
ValuedAtLatestPrice(t, item) ==
  LET rows == {r \in BagToSet(prices) : r.tickersymbol = t}
  IN  IF rows = {} THEN item.value = 0
      ELSE \E r \in rows :
             /\ \A y \in rows : y.date <= r.date
             /\ item.value = item.quantity * r.price

\* the cash flows of item are one flow per transaction of its owner and
\* ticker t, and after them one inflow of quantity times latest price dated
\* today exactly when quantity and latest price are greater than 0
FlowsOfLedger(t, item) ==
  LET ids == {i \in DOMAIN transactions : /\ transactions[i].tickersymbol = t
                                          /\ transactions[i].user_id = item.user_id}
      n == Cardinality(ids)
      flow(i) == (0 - SignedQuantity(transactions[i])) * transactions[i].price
      terminal == item.quantity > 0 /\ item.latest_price > 0
      cash_flows == item.flows.cash_flows
      dates == item.flows.dates
  IN  /\ Len(cash_flows) = n + (IF terminal THEN 1 ELSE 0)
      /\ Len(dates) = Len(cash_flows)
      /\ \A i \in ids :
           Occurrences(cash_flows, n, flow(i)) =
             Cardinality({j \in ids : flow(j) = flow(i)})
      /\ terminal => /\ cash_flows[n + 1] = item.quantity * item.latest_price
                      /\ dates[n + 1] = Today

\* C22: every holding of index is valued at quantity times the price of the
\* max-date Price row of its ticker (0 without a row), and the cash flows
\* passed to calculate_xirr are one per transaction of the owner and ticker
\* plus one terminal inflow dated today iff quantity > 0 and latest price > 0.
HoldingsValuedAndFlowsBuilt ==
  response.handler = "index" =>
    \A t \in DOMAIN portfolio_items :
      /\ ValuedAtLatestPrice(t, portfolio_items[t])
      /\ Len(portfolio_items[t].flows.cash_flows) > 1
           => FlowsOfLedger(t, portfolio_items[t])

\* index passed the flows of a Buy, a Sell and the terminal inflow
BuySellAndTerminalFlow ==
  /\ response.handler = "index"
  /\ \E t \in DOMAIN portfolio_items :
       /\ Len(portfolio_items[t].flows.cash_flows) = 3
       /\ portfolio_items[t].flows.cash_flows[1] < 0
       /\ portfolio_items[t].flows.cash_flows[2] > 0
       /\ portfolio_items[t].flows.dates[3] = Today
       /\ portfolio_items[t].value > 0

\* C17: the Price table holds at most one row per (ticker, date), whichever
\* of the handlers wrote to it.
OnePricePerTickerAndDate ==
  \A r \in BagToSet(prices) :
    /\ CopiesIn(r, prices) = 1
    /\ \A x \in BagToSet(prices) :
         (x.tickersymbol = r.tickersymbol /\ x.date = r.date) => x = r

\* C18: with the Transaction and Price tables as they are, and the
\* latest-price query answering with the same row, a second
\* update_portfolio(ticker, owner) leaves the Portfolio table as the first left
\* it, whatever the net quantity and whether or not the row exists.
RecomputeIsIdempotent ==
  \A user \in Users, t \in Stocks :
    \A latest_price \in LatestPrices(prices, t) :
      LET once == UpdatedPortfolio(transactions, latest_price, portfolio, t, user)
      IN  UpdatedPortfolio(transactions, latest_price, once, t, user) = once

\* update_portfolio has written a negative net quantity to a Portfolio row
NegativeNetRecomputed ==
  \E k \in DOMAIN portfolio :
    /\ portfolio[k].quantity < 0
    /\ portfolio[k].quantity =
         get_current_stock_quantity_all_dates(transactions, k[2], Today, k[1], 0)

\* the rows of ticker t are the same in both Price tables
SamePricesOf(t, prs, after) ==
  \A r \in BagToSet(prs) \cup BagToSet(after) :
    r.tickersymbol = t => CopiesIn(r, prs) = CopiesIn(r, after)

\* the tail of a ledger write of row in the session of its owner, the
\* provider having failed: the price of the row's date is upserted, nothing
\* else is written to the Price table, update_portfolio has run
WrittenWithoutProvider(row) ==
  /\ prices' \in UpsertPrice(prices, row.tickersymbol, row.date, row.price)
  /\ portfolio' \in update_portfolio(transactions', prices', portfolio,
                                     row.tickersymbol, row.user_id)

AddedWithoutProvider ==
  /\ transaction_id_seq' = transaction_id_seq + 1
  /\ DOMAIN transactions' = DOMAIN transactions \cup {transaction_id_seq}
  /\ \A i \in DOMAIN transactions : transactions'[i] = transactions[i]
  /\ transactions'[transaction_id_seq].tickersymbol \in DOMAIN history'
  /\ WrittenWithoutProvider(transactions'[transaction_id_seq])

EditedWithoutProvider ==
  \E id \in DOMAIN transactions :
    /\ DOMAIN transactions' = DOMAIN transactions
    /\ \A i \in DOMAIN transactions \ {id} : transactions'[i] = transactions[i]
    /\ transactions'[id].tickersymbol \in DOMAIN history'
    /\ transactions'[id].user_id = transactions[id].user_id
    /\ WrittenWithoutProvider(transactions'[id])

\* every ticker the provider answered for has today's price, the others
\* keep their rows
LoggedInWithoutProvider ==
  \A t \in DOMAIN history' :
    IF history'[t].kind = "data"
    THEN BagIn(PriceRow(t, Today, history'[t].close), prices')
    ELSE SamePricesOf(t, prices, prices')

\* C19: when the provider raises or returns an empty history, an
\* add_transaction or edit_transaction that passed validation still persists
\* the transaction, upserts the price of its date, runs update_portfolio and
\* writes no price of today from the provider; update_user_portfolio_prices
\* still updates the tickers the provider answered for.
ProviderFailureIsNotFatal ==
  [][(/\ requests' = requests + 1
      /\ \E t \in DOMAIN history' : history'[t].kind # "data")
     => /\ response'.handler = "add_transaction" => AddedWithoutProvider
        /\ response'.handler = "edit_transaction" => EditedWithoutProvider
        /\ response'.handler = "login" => LoggedInWithoutProvider]_vars

\* an add_transaction went through while the provider raised
AddedWhileProviderRaised ==
  /\ response = [handler |-> "add_transaction", status |-> 200]
  /\ \E t \in DOMAIN history :
       /\ history[t].kind = "raise"
       /\ transactions[transaction_id_seq - 1].tickersymbol = t
       /\ <<transactions[transaction_id_seq - 1].user_id, t>> \in DOMAIN portfolio
       /\ \A r \in BagToSet(prices) :
            r.tickersymbol = t => r.date = transactions[transaction_id_seq - 1].date

\* ---------------------------------------------------- concurrency properties
\* the ledger without the rows of ids
Without(txns, ids) == [i \in DOMAIN txns \ ids |-> txns[i]]

LaterDate(a, b) == IF a >= b THEN a ELSE b

\* C20: two Sell requests of one owner and ticker served concurrently are
\* never both accepted with a combined quantity above the holdings as of
\* their dates.
ConcurrentSellsWithinHoldings ==
  \A a, b \in in_flight :
    (/\ a.rid # b.rid
     /\ a.id # 0 /\ b.id # 0
     /\ a.user = b.user
     /\ a.form.tickersymbol = b.form.tickersymbol
     /\ a.form.operation = "Sell" /\ b.form.operation = "Sell")
    => a.form.quantity + b.form.quantity <=
         get_current_stock_quantity(Without(transactions, {a.id, b.id}),
                                    a.form.tickersymbol,
                                    LaterDate(a.form.date, b.form.date), a.user, 0)

\* no request is between its first and its last step
AllCompleted == \A r \in in_flight : r.pc \in {"done", "rejected"}

\* C21: once two concurrent requests that wrote to the ledger of one owner
\* and ticker have completed, the quantity of the Portfolio row is the net
\* quantity of the ledger (there is no row when the net quantity is not
\* positive and none was there).
RecomputeSeesBothWrites ==
  \A a, b \in in_flight :
    (/\ AllCompleted
     /\ a.rid # b.rid
     /\ a.pc = "done" /\ b.pc = "done"
     /\ a.user = b.user
     /\ a.form.tickersymbol = b.form.tickersymbol)
    => LET key == <<a.user, a.form.tickersymbol>>
           net == TotalQuantity(transactions, a.form.tickersymbol, a.user)
       IN  IF key \in DOMAIN portfolio
           THEN portfolio[key].quantity = net
           ELSE net <= 0

\* ------------------------------------------------------ sale event properties
\* C23: a sale event whose sale date is the purchase date of the lot it
\* consumed has xirr None, whatever the two prices.
SameDaySaleHasNoXirr ==
  \A k \in 1..Len(matcher.lots) :
    \A j \in 1..Len(matcher.lots[k].sales_from_lot) :
      matcher.lots[k].sales_from_lot[j].sale_date = matcher.lots[k].date
        => matcher.lots[k].sales_from_lot[j].xirr = None

\* the sold_quantity of the sale events of a lot, added up
SoldFromLot(lot) ==
  SumOver(LAMBDA e : e.sold_quantity, lot.sales_from_lot, Len(lot.sales_from_lot))

\* every lot holds between 0 and what was purchased, and what is gone is in
\* its sale events
LotsAccountedFor ==
  \A k \in 1..Len(matcher.lots) :
    /\ 0 <= matcher.lots[k].balance_quantity
    /\ matcher.lots[k].balance_quantity <= matcher.lots[k].purchased_quantity
    /\ matcher.lots[k].purchased_quantity =
         matcher.lots[k].balance_quantity + SoldFromLot(matcher.lots[k])

\* no step of a run of lot_details raises the balance of a lot
BalanceNotRaised ==
  lot_pc # "idle" =>
    \A k \in 1..Len(matcher.lots) :
      /\ k <= Len(matcher'.lots)
      /\ matcher'.lots[k].balance_quantity <= matcher.lots[k].balance_quantity

\* C24: while lot_details processes a transaction sequence, the balance of a
\* lot never increases and stays between 0 and the purchased quantity, and
\* the purchased quantity is the balance plus the quantities of the lot's
\* sale events after every step.
LotBalancesOnlyFall == [](LotsAccountedFor) /\ [][BalanceNotRaised]_vars

\* two Sells have taken from one lot
LotSoldInTwoSteps ==
  \E k \in 1..Len(matcher.lots) :
    /\ Len(matcher.lots[k].sales_from_lot) = 2
    /\ matcher.lots[k].purchased_quantity = 2
    /\ matcher.lots[k].balance_quantity = 0

\* the lots in the open queue
OpenLots(m) == {m.open_lots[i] : i \in 1..Len(m.open_lots)}

\* this step records a sale event against lot k
SaleRecorded(k) ==
  /\ k <= Len(matcher'.lots)
  /\ Len(matcher'.lots[k].sales_from_lot) = Len(matcher.lots[k].sales_from_lot) + 1

\* the step that records a sale event against lot k takes from the oldest lot
\* with a balance the smaller of the remaining sell quantity and the balance,
\* and takes the lot off the queue exactly when nothing is left in it
OldestLotConsumed(k) ==
  LET sale == matcher'.lots[k].sales_from_lot[Len(matcher'.lots[k].sales_from_lot)]
  IN  /\ \A j \in 1..(k - 1) : matcher.lots[j].balance_quantity = 0
      /\ sale.sold_quantity =
           Min(matcher.sell_quantity, matcher.lots[k].balance_quantity)
      /\ matcher'.lots[k].balance_quantity =
           matcher.lots[k].balance_quantity - sale.sold_quantity
      /\ k \in OpenLots(matcher)
      /\ k \notin OpenLots(matcher') <=> matcher'.lots[k].balance_quantity = 0

\* C25: whenever lot_details records a sale event against a lot, every lot of
\* an earlier Buy in (date, id) order has balance 0, the quantity taken is
\* min(remaining sell quantity, lot balance), and the lot leaves the open
\* queue exactly when its balance reaches 0.
SellsConsumeOldestFirst ==
  [][\A k \in 1..Len(matcher.lots) : SaleRecorded(k) => OldestLotConsumed(k)]_vars

\* a Sell has gone on to the second lot after using up the first
SecondLotReached ==
  /\ Len(matcher.lots) >= 2
  /\ matcher.lots[1].balance_quantity = 0
  /\ matcher.lots[2].sales_from_lot # <<>>
  /\ matcher.lots[2].balance_quantity > 0

\* the solver is at the start of a pass
AtPassStart == xirr.pc = "loop" /\ xirr.i < MaxIterations

\* the pass the solver is at returns None and updates nothing
ReturnsNoneAtOnce ==
  /\ xirr'.pc = "returned"
  /\ xirr'.result = None
  /\ xirr'.guess = xirr.guess
  /\ xirr'.i = xirr.i
  /\ xirr'.rate = xirr.rate

\* _xnpv and the derivative have been evaluated only at rates above -1
EvaluatedAboveMinusOne ==
  xirr.rate # None => ~LessEq(xirr.rate, Neg(One))

\* C26: a pass of calculate_xirr that starts with 1 + guess <= 0, the first
\* pass with the guess of the caller included, returns None at once, and
\* calculate_xirr never evaluates _xnpv or the derivative at a rate <= -1.
GuardReturnsNone ==
  /\ [](EvaluatedAboveMinusOne)
  /\ [][(AtPassStart /\ XirrGuard(xirr.guess)) => ReturnsNoneAtOnce]_vars

\* the guard returned None in a later pass, after evaluations at other rates
GuardFiredAfterUpdate ==
  /\ xirr.pc = "returned"
  /\ xirr.i >= 1
  /\ xirr.i < MaxIterations
  /\ XirrGuard(xirr.guess)
  /\ xirr.rate # None
  /\ xirr.result = None
====
